---- MODULE Spec2Model ----
(***************************************************************************)
(* Receptor generation of atmos_column: the slant column builder           *)
(* (ground_slant_handler), the terrain annotation (add_sh_and_agl over     *)
(* DEM_handler), the receptor formatter (slant_df_to_rec_df) and the       *)
(* receptor file writer of create_receptors.receptor_creator.              *)
(*                                                                         *)
(* Units.  Heights are integers in millimetres, latitudes and longitudes   *)
(* integers in 1e-5 degree, times integers in half seconds since           *)
(* 2022-06-16 00:00:00 UTC.  NaN is numpy's nan (and pandas' NaT).         *)
(***************************************************************************)
EXTENDS Integers, Sequences, FiniteSets, TLC

VARIABLES
    configs,      \* the run_config_obj: column_type, inst_lat, inst_lon, inst_zasl, z_ail_list
    dem,          \* the DEM raster: surface elevation of every grid cell
    oof,          \* the rows of the instrument (oof) data files, sorted by time
    rc,           \* the receptor_creator instance: dt1, dt2
    gsh,          \* the ground_slant_handler and the window it is run on
    slant_df,     \* the slant table being built (multi_df)
    receptor_df,  \* the receptor table (df1)
    files,        \* the receptor folder: path -> content
    pc,           \* position inside create_receptors
    outcome,      \* how the last call of create_receptors ended
    runs          \* number of create_receptors calls started

vars == <<configs, dem, oof, rc, gsh, slant_df, receptor_df, files, pc, outcome, runs>>

---------------------------------------------------------------------------
(* Numbers *)

NaN == -999999999

Hour == 7200

Day == 24 * Hour

IsNa(x) == x = NaN

\* element-wise x - y of pandas/numpy: nan if either operand is nan
NaSub(x, y) == IF IsNa(x) \/ IsNa(y) THEN NaN ELSE x - y

\* element-wise x + y
NaAdd(x, y) == IF IsNa(x) \/ IsNa(y) THEN NaN ELSE x + y

\* Series.gt(0): comparisons with nan are False
NaGt0(x) == ~IsNa(x) /\ x > 0

\* numpy's round (Series.round, Timestamp.round): to the nearest multiple of q,
\* halves to the even multiple; nan stays nan
RoundHalfEven(x, q) ==
    IF IsNa(x) THEN NaN
    ELSE LET k == x \div q
             r == x - k * q
         IN  IF 2 * r < q THEN k * q
             ELSE IF 2 * r > q THEN (k + 1) * q
             ELSE IF k % 2 = 0 THEN k * q ELSE (k + 1) * q

\* Timestamp.floor(interval)
FloorTo(x, q) == (x \div q) * q

\* Timestamp.ceil(interval)
CeilTo(x, q) == IF x % q = 0 THEN x ELSE (x \div q + 1) * q

\* the i-th smallest element of a set of positions
NthIdx(S, i) == CHOOSE k \in S : Cardinality({j \in S : j < k}) = i - 1

---------------------------------------------------------------------------
(* The sun (pysolar) and the ellipsoid (geographiclib) *)

HourOfDay(t) == (t \div Hour) % 24

\* 90 - solar.get_altitude(lat, lon, dt), in degrees, at the modelled site
\* (Salt Lake City in June: sun up from about 12 UTC to about 03 UTC)
SolZenDeg(lat, lon, t) ==
    LET h == HourOfDay(t)
    IN  IF h \in 4..11 THEN 120
        ELSE IF h = 12 \/ h = 3 THEN 89
        ELSE 45

\* solar.get_azimuth(lat, lon, dt), in degrees clockwise from north
SolAziDeg(lat, lon, t) ==
    LET h == HourOfDay(t)
    IN  IF h \in 12..17 THEN 90
        ELSE IF h \in 18..20 THEN 180
        ELSE 270

\* np.tan(np.deg2rad(d)) at the zenith angles of the model, to the integer
TanDeg(d) == IF d = 45 THEN 1 ELSE IF d = 89 THEN 57 ELSE 0

\* length of 1e-5 degree of arc, in millimetres
MmPerTick == 1110

\* cos(40.77 degrees) in percent: a degree of longitude is that much shorter
CosLatPct == 76

\* the point one tick further than the distance asked for
GeodDirect_next_tick(lat, lon, azi, dist) ==
    LET d == (dist \div MmPerTick) + 1
        e == (100 * d) \div CosLatPct
    IN  IF azi = 0 THEN [lat2 |-> lat + d, lon2 |-> lon]
        ELSE IF azi = 90 THEN [lat2 |-> lat, lon2 |-> lon + e]
        ELSE IF azi = 180 THEN [lat2 |-> lat - d, lon2 |-> lon]
        ELSE [lat2 |-> lat, lon2 |-> lon - e]

\* Geodesic.WGS84.Direct(lat, lon, azi, dist): the point dist away from
\* (lat, lon) along the bearing azi; planar, along the four cardinal bearings
GeodDirect(lat, lon, azi, dist) ==
    LET d == dist \div MmPerTick
        e == (100 * d) \div CosLatPct
    IN  IF azi = 0 THEN [lat2 |-> lat + d, lon2 |-> lon]
        ELSE IF azi = 90 THEN [lat2 |-> lat, lon2 |-> lon + e]
        ELSE IF azi = 180 THEN [lat2 |-> lat - d, lon2 |-> lon]
        ELSE [lat2 |-> lat, lon2 |-> lon - e]

\* without the check of the zenith angle
slant_lat_lon_noguard(inst_lat, inst_lon, dt, z_above_inst) ==
    LET sol_zen_deg == SolZenDeg(inst_lat, inst_lon, dt)
        sol_azi_deg == SolAziDeg(inst_lat, inst_lon, dt)
        arc_dist    == z_above_inst * TanDeg(sol_zen_deg)
        new_point   == GeodDirect(inst_lat, inst_lon, sol_azi_deg, arc_dist)
    IN  <<new_point.lat2, new_point.lon2>>

slant_lat_lon(inst_lat, inst_lon, dt, z_above_inst) ==
    LET sol_zen_deg == SolZenDeg(inst_lat, inst_lon, dt)
        sol_azi_deg == SolAziDeg(inst_lat, inst_lon, dt)
        arc_dist    == z_above_inst * TanDeg(sol_zen_deg)
        new_point   == GeodDirect(inst_lat, inst_lon, sol_azi_deg, arc_dist)
    IN  IF sol_zen_deg > 90 THEN <<NaN, NaN>>
        ELSE <<new_point.lat2, new_point.lon2>>

---------------------------------------------------------------------------
(* The DEM (DEM_handler) *)

\* latitudes and longitudes of the raster's cell centres
DemLats == {4076000, 4076500, 4077000}

DemLons == {-11185000, -11184500, -11184000}

DemCells == DemLats \X DemLons

\* half the cell spacing: a cell covers its centre +- DemHalfCell
DemHalfCell == 250

\* the spatial coverage of the raster
InCoverage(pt_lat, pt_lon) ==
    /\ ~IsNa(pt_lat) /\ ~IsNa(pt_lon)
    /\ \E c \in DemCells : /\ c[1] - DemHalfCell <= pt_lat /\ pt_lat <= c[1] + DemHalfCell
                           /\ c[2] - DemHalfCell <= pt_lon /\ pt_lon <= c[2] + DemHalfCell

\* bound_box_deg = 0.01 degree
bound_box_deg == 1000

\* the rasters of the model: 1300 m everywhere, and the same with a 2500 m
\* ridge along the southernmost row
DemFlat == [c \in DemCells |-> 1300000]

DemRidge == [c \in DemCells |-> IF c[1] = 4076000 THEN 2500000 ELSE 1300000]

\* the cells of the slice lat in [pt_lat - box, pt_lat + box], lon likewise;
\* slicing on nan bounds selects nothing
get_sub_dem_df(pt_lat, pt_lon) ==
    IF IsNa(pt_lat) \/ IsNa(pt_lon) THEN {}
    ELSE {c \in DemCells : /\ pt_lat - bound_box_deg <= c[1] /\ c[1] <= pt_lat + bound_box_deg
                           /\ pt_lon - bound_box_deg <= c[2] /\ c[2] <= pt_lon + bound_box_deg}

\* haversine(lat1, lon1, lat2, lon2), as the squared planar distance in units
\* of (1e-7 degree of latitude)^2 (it orders the cells of a 0.02 degree box as
\* the great circle distance does); 58 = CosLatPct^2 / 100
haversine(lat1, lon1, lat2, lon2) ==
    100 * (lat1 - lat2) * (lat1 - lat2) + 58 * (lon1 - lon2) * (lon1 - lon2)

\* row order of dem_da.to_dataframe(): latitude descending, then longitude ascending
DemRowBefore(a, b) == a[1] > b[1] \/ (a[1] = b[1] /\ a[2] < b[2])

get_nearest_elev(d, pt_lat, pt_lon) ==
    LET dem_df  == get_sub_dem_df(pt_lat, pt_lon)
        dist(c) == haversine(c[1], c[2], pt_lat, pt_lon)
        \* idxmin: the first row of least distance
        idx     == CHOOSE c \in dem_df :
                      \A o \in dem_df : dist(c) < dist(o) \/ (dist(c) = dist(o) /\ (c = o \/ DemRowBefore(c, o)))
    IN  IF dem_df = {} THEN NaN ELSE d[idx]

---------------------------------------------------------------------------
(* The slant column builder (ground_slant_handler) *)

\* the range closed on the left only: dt2 is left out even when it is on the grid
create_dt_list_open_right(dt1, dt2, interval) ==
    [k \in 1..((dt2 - dt1 + interval - 1) \div interval) |-> dt1 + (k - 1) * interval]

\* pd.date_range(dt1, dt2, freq = interval): dt1, dt1 + interval, ... up to dt2
RECURSIVE create_dt_list(_, _, _)
create_dt_list(dt1, dt2, interval) ==
    IF dt1 > dt2 THEN <<>> ELSE <<dt1>> \o create_dt_list(dt1 + interval, dt2, interval)

\* the product with the second list varying slowest
Product_b_major(a, b) ==
    [k \in 1..(Len(a) * Len(b)) |-> <<a[((k - 1) % Len(a)) + 1], b[((k - 1) \div Len(a)) + 1]>>]

\* itertools.product(a, b) as a list: a-major
Product(a, b) ==
    [k \in 1..(Len(a) * Len(b)) |-> <<a[((k - 1) \div Len(b)) + 1], b[((k - 1) % Len(b)) + 1]>>]

\* the height above sea level computed only where the sun is up
InitialRow_zasl_of_position(h, dt, zail) ==
    LET p == slant_lat_lon(h.inst_lat, h.inst_lon, dt, zail)
    IN  [dt |-> dt, z_ail |-> zail,
         inst_lat |-> h.inst_lat, inst_lon |-> h.inst_lon, inst_zasl |-> h.inst_zasl,
         receptor_lat |-> p[1], receptor_lon |-> p[2],
         receptor_zasl |-> IF IsNa(p[1]) THEN NaN ELSE NaAdd(zail, h.inst_zasl)]

\* one row of the initial slant table, for the pair (dt, zail)
InitialRow(h, dt, zail) ==
    LET p == slant_lat_lon(h.inst_lat, h.inst_lon, dt, zail)
    IN  [dt |-> dt, z_ail |-> zail,
         inst_lat |-> h.inst_lat, inst_lon |-> h.inst_lon, inst_zasl |-> h.inst_zasl,
         receptor_lat |-> p[1], receptor_lon |-> p[2],
         receptor_zasl |-> NaAdd(zail, h.inst_zasl)]

create_initial_slantdf(h, dt_list) ==
    LET combined_tuples == Product(dt_list, h.z_ail_list)
    IN  [k \in 1..Len(combined_tuples) |-> InitialRow(h, combined_tuples[k][1], combined_tuples[k][2])]

\* the surface height minus the receptor height
ShAglRow_swapped(d, row) ==
    LET shasl == get_nearest_elev(d, row.receptor_lat, row.receptor_lon)
        zagl  == NaSub(shasl, row.receptor_zasl)
    IN  [dt |-> row.dt, z_ail |-> row.z_ail,
         inst_lat |-> row.inst_lat, inst_lon |-> row.inst_lon, inst_zasl |-> row.inst_zasl,
         receptor_lat |-> row.receptor_lat, receptor_lon |-> row.receptor_lon,
         receptor_zasl |-> row.receptor_zasl,
         receptor_shasl |-> shasl, receptor_zagl |-> zagl, receptor_z_is_agl |-> NaGt0(zagl)]

\* one row of add_sh_and_agl: surface height, height above ground, flag
ShAglRow(d, row) ==
    LET shasl == get_nearest_elev(d, row.receptor_lat, row.receptor_lon)
        zagl  == NaSub(row.receptor_zasl, shasl)
    IN  [dt |-> row.dt, z_ail |-> row.z_ail,
         inst_lat |-> row.inst_lat, inst_lon |-> row.inst_lon, inst_zasl |-> row.inst_zasl,
         receptor_lat |-> row.receptor_lat, receptor_lon |-> row.receptor_lon,
         receptor_zasl |-> row.receptor_zasl,
         receptor_shasl |-> shasl, receptor_zagl |-> zagl, receptor_z_is_agl |-> NaGt0(zagl)]

add_sh_and_agl(df, d) == [k \in 1..Len(df) |-> ShAglRow(d, df[k])]

\* looking at the position only
SlantRowDefined_position_only(row) ==
    /\ ~IsNa(row.receptor_lat) /\ ~IsNa(row.receptor_lon)

\* a row that multi_df.dropna() keeps: no column of it is nan
SlantRowDefined(row) ==
    /\ ~IsNa(row.inst_lat) /\ ~IsNa(row.inst_lon) /\ ~IsNa(row.inst_zasl)
    /\ ~IsNa(row.receptor_lat) /\ ~IsNa(row.receptor_lon) /\ ~IsNa(row.receptor_zasl)
    /\ ~IsNa(row.receptor_shasl) /\ ~IsNa(row.receptor_zagl)

---------------------------------------------------------------------------
(* The receptor formatter *)

\* rename, select and round the columns of one slant row
RecRow(row) ==
    [run_times |-> RoundHalfEven(row.dt, 2),
     lati |-> RoundHalfEven(row.receptor_lat, 10),
     long |-> RoundHalfEven(row.receptor_lon, 10),
     zagl |-> RoundHalfEven(row.receptor_zagl, 10),
     z_is_agl |-> row.receptor_z_is_agl,
     zasl |-> row.receptor_zasl,
     zail |-> row.z_ail]

\* dropping the rows at or below the ground as well
RecRowDefined_above_ground(r) ==
    /\ ~IsNa(r.run_times) /\ ~IsNa(r.lati) /\ ~IsNa(r.long)
    /\ ~IsNa(r.zagl) /\ ~IsNa(r.zasl) /\ ~IsNa(r.zail)
    /\ r.z_is_agl

\* a row that df1.dropna() keeps
RecRowDefined(r) ==
    /\ ~IsNa(r.run_times) /\ ~IsNa(r.lati) /\ ~IsNa(r.long)
    /\ ~IsNa(r.zagl) /\ ~IsNa(r.zasl) /\ ~IsNa(r.zail)

\* reset_index() after the drop: the new row number becomes the first column
WithSimId(r, k) ==
    [sim_id |-> k - 1, run_times |-> r.run_times, lati |-> r.lati, long |-> r.long,
     zagl |-> r.zagl, z_is_agl |-> r.z_is_agl, zasl |-> r.zasl, zail |-> r.zail]

\* the index added as the last column
reset_index_last(columns) == columns \o <<"index">>

\* the columns after df.reset_index(): the index becomes the first column
reset_index(columns) == <<"index">> \o columns

\* the columns after df.rename(columns = {old: new})
rename(columns, old, new) == [i \in 1..Len(columns) |-> IF columns[i] = old THEN new ELSE columns[i]]

\* the columns of the table slant_df_to_rec_df returns: the seven selected,
\* then the index of the last reset_index, renamed to sim_id
slant_df_to_rec_df_columns ==
    rename(reset_index(<<"run_times", "lati", "long", "zagl", "z_is_agl", "zasl", "zail">>), "index", "sim_id")

\* without reset_index(drop=True): the sim_id is the row number before the drop
slant_df_to_rec_df_keepindex(df) ==
    LET df1  == [k \in 1..Len(df) |-> RecRow(df[k])]
        kept == {k \in 1..Len(df1) : RecRowDefined(df1[k])}
    IN  [i \in 1..Cardinality(kept) |-> WithSimId(df1[NthIdx(kept, i)], NthIdx(kept, i))]

slant_df_to_rec_df(df) ==
    LET df1     == [k \in 1..Len(df) |-> RecRow(df[k])]
        dropped == SelectSeq(df1, RecRowDefined)
    IN  [k \in 1..Len(dropped) |-> WithSimId(dropped[k], k)]

---------------------------------------------------------------------------
(* Configurations, instrument data and datetime ranges of the model *)

\* most calls of create_receptors in one behaviour (main's loop over the ranges)
MaxRuns == 2

T(h, halfsecs) == h * Hour + halfsecs

\* the daily ranges handed to receptor_creator: daylight, night, dawn, and a
\* range whose end is not a whole number of steps after its start
DtRanges ==
    {<<T(18, 0), T(20, 0)>>, <<T(6, 0), T(7, 0)>>,
     <<T(11, 0), T(13, 0)>>, <<T(17, 3600), T(18, 5400)>>}

InstLocs ==
    {[inst_lat |-> 4076600, inst_lon |-> -11184700, inst_zasl |-> 1492000],
     [inst_lat |-> 4076604, inst_lon |-> -11184705, inst_zasl |-> 1300004],
     [inst_lat |-> 4176600, inst_lon |-> -11184700, inst_zasl |-> 1492000]}

ZailLists == {<<0, 100000, 1000000>>, <<100000, 0, 100000>>, <<0>>, <<>>}

ColumnTypes == {"ground", "em27", "satellite"}

Intervals == {Hour, Hour \div 2}

Configs ==
    {[column_type |-> c, inst_lat |-> l.inst_lat, inst_lon |-> l.inst_lon,
      inst_zasl |-> l.inst_zasl, z_ail_list |-> z, interval |-> i] :
        c \in ColumnTypes, l \in InstLocs, z \in ZailLists, i \in Intervals}

OofRow(t, lat, lon, zasl) == [dt |-> t, inst_lat |-> lat, inst_lon |-> lon, inst_zasl |-> zasl]

\* the instrument data on disk: none, an afternoon at one place, one that
\* starts at 17:40, and afternoons during which the instrument was moved
\* north, east, or up
OofTables ==
    {<<>>,
     <<OofRow(T(17, 4800), 4076600, -11184700, 1492000), OofRow(T(18, 1201), 4076600, -11184700, 1492000)>>,
     <<OofRow(T(18, 1201), 4076600, -11184700, 1492000), OofRow(T(19, 2400), 4076600, -11184700, 1492000)>>,
     <<OofRow(T(18, 1201), 4076600, -11184700, 1492000), OofRow(T(19, 2400), 4076700, -11184700, 1492000)>>,
     <<OofRow(T(18, 1201), 4076600, -11184700, 1492000), OofRow(T(19, 2400), 4076600, -11184600, 1492000)>>,
     <<OofRow(T(18, 1201), 4076600, -11184700, 1492000), OofRow(T(19, 2400), 4076600, -11184700, 1493000)>>}

\* receptor files are named after the column type and the range of the creator
Paths == {"ground", "em27"} \X DtRanges

NoFile == [exists |-> FALSE, header |-> <<>>, columns |-> <<>>, tables |-> <<>>]

\* one line of text of a header: the text before the first ':' (what
\* line.split(':')[0] gives), the separator written after it, and what
\* follows, as a fixed text or format and the numbers printed with it
HeaderLine(key, sep, str, nums) == [key |-> key, sep |-> sep, str |-> str, nums |-> nums]

\* an empty line
BlankLine == HeaderLine("", "", "", <<>>)

\* the header without the last write of a newline
receptor_header_of_noblank(c, now, dt1, dt2) ==
    <<HeaderLine("Receptor file created using atmos_column.create_receptors", "", "", <<>>),
      HeaderLine("Column type", ": ", c.column_type, <<>>),
      HeaderLine("Instrument Location", ": ", ", masl", <<c.inst_lat, c.inst_lon, c.inst_zasl>>),
      HeaderLine("Created at", ": ", "", <<now>>),
      HeaderLine("Data date", ": ", "%Y-%m-%d", <<dt1 \div Day>>),
      HeaderLine("Datetime range", ": ", " to ", <<dt1, dt2>>)>>

\* the lines receptor_creator.receptor_header writes for the configuration c
\* at the clock now; the clock of a run is the number of the run
receptor_header_of(c, now, dt1, dt2) ==
    <<HeaderLine("Receptor file created using atmos_column.create_receptors", "", "", <<>>),
      HeaderLine("Column type", ": ", c.column_type, <<>>),
      HeaderLine("Instrument Location", ": ", ", masl", <<c.inst_lat, c.inst_lon, c.inst_zasl>>),
      HeaderLine("Created at", ": ", "", <<now>>),
      HeaderLine("Data date", ": ", "%Y-%m-%d", <<dt1 \div Day>>),
      HeaderLine("Datetime range", ": ", " to ", <<dt1, dt2>>),
      BlankLine>>

receptor_header(dt1, dt2) == receptor_header_of(configs, runs, dt1, dt2)

\* a receptor file left at a path by an earlier invocation of the program
\* (at clock 0), with an empty table
OldFile ==
    [exists |-> TRUE,
     header |-> receptor_header_of([column_type |-> "ground", inst_lat |-> 4076600, inst_lon |-> -11184700,
                                    inst_zasl |-> 1492000], 0, T(18, 0), T(20, 0)),
     columns |-> <<slant_df_to_rec_df_columns>>,
     tables |-> <<<<>>>>]

\* the newline character in a text, a text being a sequence of pieces
Newline == HeaderLine("\n", "", "", <<>>)

\* '\n'.join(lines), each line being a text: <<>> for '', else one piece
RECURSIVE JoinLines(_)
JoinLines(lines) ==
    IF Len(lines) = 0 THEN <<>>
    ELSE IF Len(lines) = 1 THEN lines[1]
    ELSE lines[1] \o <<Newline>> \o JoinLines(Tail(lines))

\* the lines of a file holding the text: every newline ends a line, and a
\* line without a piece is an empty line
RECURSIVE LinesOfText(_, _)
LinesOfText(text, line) ==
    IF Len(text) = 0 THEN (IF Len(line) = 0 THEN <<>> ELSE line)
    ELSE IF Head(text) = Newline
         THEN (IF Len(line) = 0 THEN <<BlankLine>> ELSE line) \o LinesOfText(Tail(text), <<>>)
         ELSE LinesOfText(Tail(text), line \o <<Head(text)>>)

\* StiltReceptors.receptor_header: the header text for the configuration c
\* at the clock now
StiltReceptors_receptor_header(c, now, dt1, dt2) ==
    LET header_lines ==
            <<<<HeaderLine("Receptor file created using atmos_column.create_receptors, git hash", ":", "sha", <<>>)>>,
              <<HeaderLine("Column type", ":", c.column_type, <<>>)>>,
              <<HeaderLine("Instrument Location", ":", ",masl", <<c.inst_lat, c.inst_lon, c.inst_zasl>>)>>,
              <<HeaderLine("Created at", ":", "", <<now>>)>>,
              <<HeaderLine("Data date1", ":", "%Y%m%d", <<dt1 \div Day>>)>>,
              <<HeaderLine("Datetime range", ":", ",", <<dt1, dt2>>)>>,
              <<>> >>
    IN  JoinLines(header_lines)

NoGsh == [inst_lat |-> NaN, inst_lon |-> NaN, inst_zasl |-> NaN, z_ail_list |-> <<>>, dt1 |-> NaN, dt2 |-> NaN]

---------------------------------------------------------------------------
(* create_receptors.receptor_creator *)

Init ==
    /\ configs \in Configs
    /\ dem \in {DemFlat, DemRidge}
    /\ oof \in OofTables
    /\ rc \in {[dt1 |-> r[1], dt2 |-> r[2]] : r \in DtRanges}
    /\ gsh = NoGsh
    /\ slant_df = <<>>
    /\ receptor_df = <<>>
    /\ files \in {[p \in Paths |-> NoFile], [p \in Paths |-> OldFile]}
    /\ pc = "start"
    /\ outcome = "none"
    /\ runs = 0

\* os.path.join(output_folder, 'receptors', column_type, get_rec_fname())
receptor_fullpath == <<configs.column_type, <<rc.dt1, rc.dt2>>>>

\* the dispatch with a final else that runs the ground creator
CreateReceptors_else_ground ==
    /\ pc = "start"
    /\ runs' = runs + 1
    /\ IF configs.column_type = "em27" THEN pc' = "em27" /\ outcome' = outcome
       ELSE pc' = "ground" /\ outcome' = outcome
    /\ UNCHANGED <<configs, dem, oof, rc, gsh, slant_df, receptor_df, files>>

\* create_receptors: the dispatch on the column type
CreateReceptors ==
    /\ pc = "start"
    /\ runs' = runs + 1
    /\ IF configs.column_type = "ground" THEN pc' = "ground" /\ outcome' = outcome
       ELSE IF configs.column_type = "em27" THEN pc' = "em27" /\ outcome' = outcome
       ELSE pc' = "done" /\ outcome' = "raised"
    /\ UNCHANGED <<configs, dem, oof, rc, gsh, slant_df, receptor_df, files>>

\* the header written before the slant column is built
GroundRecCreator_header_first ==
    /\ pc = "ground"
    /\ gsh' = [inst_lat |-> configs.inst_lat, inst_lon |-> configs.inst_lon,
               inst_zasl |-> configs.inst_zasl, z_ail_list |-> configs.z_ail_list,
               dt1 |-> rc.dt1, dt2 |-> rc.dt2]
    /\ files' = [files EXCEPT ![<<configs.column_type, <<rc.dt1, rc.dt2>>>>] =
                    [exists |-> TRUE, header |-> receptor_header(rc.dt1, rc.dt2), columns |-> <<>>, tables |-> <<>>]]
    /\ pc' = "slant"
    /\ UNCHANGED <<configs, dem, oof, rc, slant_df, receptor_df, outcome, runs>>

\* ground_rec_creator up to the call of run_slant_at_intervals
GroundRecCreator ==
    /\ pc = "ground"
    /\ gsh' = [inst_lat |-> configs.inst_lat, inst_lon |-> configs.inst_lon,
               inst_zasl |-> configs.inst_zasl, z_ail_list |-> configs.z_ail_list,
               dt1 |-> rc.dt1, dt2 |-> rc.dt2]
    /\ pc' = "slant"
    /\ UNCHANGED <<configs, dem, oof, rc, slant_df, receptor_df, files, outcome, runs>>

\* the instrument data loaded without the selection of the range
load_oof_df_all(dt1, dt2) == oof

\* the rows of the instrument data with dt1 <= time <= dt2
load_oof_df_inrange(dt1, dt2) == SelectSeq(oof, LAMBDA r : r.dt >= dt1 /\ r.dt <= dt2)

pdcol_is_equal(col) == \A i \in 1..Len(col) : col[1] = col[i]

\* check_get_loc looking at the latitude only
LocIsConstant_lat_only(oof_df) ==
    pdcol_is_equal([i \in 1..Len(oof_df) |-> oof_df[i].inst_lat])

\* check_get_loc returns without raising
LocIsConstant(oof_df) ==
    /\ pdcol_is_equal([i \in 1..Len(oof_df) |-> oof_df[i].inst_lat])
    /\ pdcol_is_equal([i \in 1..Len(oof_df) |-> oof_df[i].inst_lon])
    /\ pdcol_is_equal([i \in 1..Len(oof_df) |-> oof_df[i].inst_zasl])

\* em27_rec_creator without the comparison of dt2_oof with self.dt2
Em27RecCreator_noclip ==
    /\ pc = "em27"
    /\ LET oof_df  == load_oof_df_inrange(rc.dt1, rc.dt2)
           dt1_oof == FloorTo(oof_df[1].dt, configs.interval)
           dt2_oof == CeilTo(oof_df[Len(oof_df)].dt, configs.interval)
       IN  IF Len(oof_df) = 0
           THEN /\ pc' = "done" /\ outcome' = "returned"
                /\ UNCHANGED <<configs, gsh>>
           ELSE IF ~LocIsConstant(oof_df)
           THEN /\ pc' = "done" /\ outcome' = "raised"
                /\ UNCHANGED <<configs, gsh>>
           ELSE /\ gsh' = [inst_lat |-> oof_df[1].inst_lat, inst_lon |-> oof_df[1].inst_lon,
                           inst_zasl |-> oof_df[1].inst_zasl, z_ail_list |-> configs.z_ail_list,
                           dt1 |-> dt1_oof, dt2 |-> dt2_oof]
                /\ configs' = [configs EXCEPT !.inst_lat = oof_df[1].inst_lat,
                                              !.inst_lon = oof_df[1].inst_lon,
                                              !.inst_zasl = oof_df[1].inst_zasl]
                /\ pc' = "slant" /\ outcome' = outcome
    /\ UNCHANGED <<dem, oof, rc, slant_df, receptor_df, files, runs>>

\* em27_rec_creator up to the call of run_slant_at_intervals
Em27RecCreator ==
    /\ pc = "em27"
    /\ LET oof_df  == load_oof_df_inrange(rc.dt1, rc.dt2)
           dt1_oof == FloorTo(oof_df[1].dt, configs.interval)
           dt2_oof == CeilTo(oof_df[Len(oof_df)].dt, configs.interval)
       IN  IF Len(oof_df) = 0
           THEN /\ pc' = "done" /\ outcome' = "returned"
                /\ UNCHANGED <<configs, gsh>>
           ELSE IF ~LocIsConstant(oof_df)
           THEN /\ pc' = "done" /\ outcome' = "raised"
                /\ UNCHANGED <<configs, gsh>>
           ELSE /\ gsh' = [inst_lat |-> oof_df[1].inst_lat, inst_lon |-> oof_df[1].inst_lon,
                           inst_zasl |-> oof_df[1].inst_zasl, z_ail_list |-> configs.z_ail_list,
                           dt1 |-> dt1_oof,
                           dt2 |-> IF dt2_oof > rc.dt2 THEN rc.dt2 ELSE dt2_oof]
                /\ configs' = [configs EXCEPT !.inst_lat = oof_df[1].inst_lat,
                                              !.inst_lon = oof_df[1].inst_lon,
                                              !.inst_zasl = oof_df[1].inst_zasl]
                /\ pc' = "slant" /\ outcome' = outcome
    /\ UNCHANGED <<dem, oof, rc, slant_df, receptor_df, files, runs>>

\* run_slant_at_intervals, first half: the datetimes and the initial table
\* (the interval is not passed by either caller: the default '1h')
CreateInitialSlantdf ==
    /\ pc = "slant"
    /\ slant_df' = create_initial_slantdf(gsh, create_dt_list(gsh.dt1, gsh.dt2, Hour))
    /\ pc' = "add_sh"
    /\ UNCHANGED <<configs, dem, oof, rc, gsh, receptor_df, files, outcome, runs>>

\* run_slant_at_intervals, second half: the terrain columns
AddShAndAgl ==
    /\ pc = "add_sh"
    /\ slant_df' = add_sh_and_agl(slant_df, dem)
    /\ pc' = "guard"
    /\ UNCHANGED <<configs, dem, oof, rc, gsh, receptor_df, files, outcome, runs>>

\* run_slant_at_intervals, the end: raise when dropna() leaves no row (an
\* empty table raises here at the latest), else return the table
SlantGuard ==
    /\ pc = "guard"
    /\ IF Len(SelectSeq(slant_df, SlantRowDefined)) = 0
       THEN pc' = "done" /\ outcome' = "raised"
       ELSE pc' = "format" /\ outcome' = outcome
    /\ UNCHANGED <<configs, dem, oof, rc, gsh, slant_df, receptor_df, files, runs>>

SlantDfToRecDf ==
    /\ pc = "format"
    /\ receptor_df' = slant_df_to_rec_df(slant_df)
    /\ pc' = "header"
    /\ UNCHANGED <<configs, dem, oof, rc, gsh, slant_df, files, outcome, runs>>

\* the header written with open(full_fname, 'a'): after what the file holds
ReceptorHeader_append ==
    /\ pc = "header"
    /\ files' = [files EXCEPT ![receptor_fullpath] =
                    [exists |-> TRUE, header |-> @.header \o receptor_header(gsh.dt1, gsh.dt2),
                     columns |-> @.columns, tables |-> @.tables]]
    /\ pc' = "to_csv"
    /\ UNCHANGED <<configs, dem, oof, rc, gsh, slant_df, receptor_df, outcome, runs>>

\* open(full_fname, 'w') and the writes of receptor_header
ReceptorHeader ==
    /\ pc = "header"
    /\ files' = [files EXCEPT ![receptor_fullpath] =
                    [exists |-> TRUE, header |-> receptor_header(gsh.dt1, gsh.dt2), columns |-> <<>>, tables |-> <<>>]]
    /\ pc' = "to_csv"
    /\ UNCHANGED <<configs, dem, oof, rc, gsh, slant_df, receptor_df, outcome, runs>>

\* receptor_df.to_csv(receptor_fullpath, mode = 'a', index = False)
ToCsv ==
    /\ pc = "to_csv"
    /\ files' = [files EXCEPT ![receptor_fullpath] =
                    [exists |-> TRUE, header |-> @.header,
                     columns |-> Append(@.columns, slant_df_to_rec_df_columns),
                     tables |-> Append(@.tables, receptor_df)]]
    /\ pc' = "done"
    /\ outcome' = "ok"
    /\ UNCHANGED <<configs, dem, oof, rc, gsh, slant_df, receptor_df, runs>>

\* main: the next daily range, with a new receptor_creator on the same configs
NextRange ==
    /\ pc = "done"
    /\ runs < MaxRuns
    /\ rc' \in {[dt1 |-> r[1], dt2 |-> r[2]] : r \in DtRanges}
    /\ gsh' = NoGsh
    /\ slant_df' = <<>>
    /\ receptor_df' = <<>>
    /\ pc' = "start"
    /\ outcome' = "none"
    /\ UNCHANGED <<configs, dem, oof, files, runs>>

Next ==
    \/ CreateReceptors
    \/ GroundRecCreator
    \/ Em27RecCreator
    \/ CreateInitialSlantdf
    \/ AddShAndAgl
    \/ SlantGuard
    \/ SlantDfToRecDf
    \/ ReceptorHeader
    \/ ToCsv
    \/ NextRange

Spec == Init /\ [][Next]_vars

---------------------------------------------------------------------------
(* The formatter on arbitrary slant tables *)

\* most rows of a slant table handed to the formatter
MaxFmtRows == 3

FmtRow(dt, zail, lat, lon, zasl, shasl) ==
    [dt |-> dt, z_ail |-> zail, inst_lat |-> 4076600, inst_lon |-> -11184700, inst_zasl |-> 1300000,
     receptor_lat |-> lat, receptor_lon |-> lon, receptor_zasl |-> zasl,
     receptor_shasl |-> shasl, receptor_zagl |-> NaSub(zasl, shasl),
     receptor_z_is_agl |-> NaGt0(NaSub(zasl, shasl))]

\* rows of slant tables: above ground, 4 mm above ground, below ground, at
\* night, off the DEM, with one coordinate only, and without a time
FmtRows ==
    {FmtRow(T(18, 1), 100000, 4076515, -11184705, 1400000, 1300000),
     FmtRow(T(18, 3), 0, 4076604, -11184700, 1300004, 1300000),
     FmtRow(T(19, 0), 0, 4076600, -11184700, 1300000, 1300015),
     FmtRow(T(6, 0), 100000, NaN, NaN, 1400000, NaN),
     FmtRow(T(19, 0), 100000, 4176600, -11184700, 1400000, NaN),
     FmtRow(T(20, 0), 0, NaN, -11184700, 1300000, 1300000),
     FmtRow(NaN, 0, 4076600, -11184700, 1300000, 1200000)}

FmtTables == UNION {[1..n -> FmtRows] : n \in 1..MaxFmtRows}

InitFmt ==
    /\ slant_df \in FmtTables
    /\ receptor_df = <<>>
    /\ pc = "fmt_in"
    /\ configs \in {c \in Configs : c.column_type = "ground" /\ c.z_ail_list = <<0>> /\ c.interval = Hour /\ c.inst_zasl = 1300004}
    /\ dem = DemFlat
    /\ oof = <<>>
    /\ rc = [dt1 |-> T(18, 0), dt2 |-> T(20, 0)]
    /\ gsh = NoGsh
    /\ files = [p \in Paths |-> NoFile]
    /\ outcome = "none"
    /\ runs = 0

\* the formatter working on its argument instead of a copy: the rounding
\* is done in the caller's table
FmtApply_inplace ==
    /\ pc = "fmt_in"
    /\ receptor_df' = slant_df_to_rec_df(slant_df)
    /\ slant_df' = [k \in 1..Len(slant_df) |->
                        [slant_df[k] EXCEPT !.dt = RoundHalfEven(@, 2),
                                            !.receptor_lat = RoundHalfEven(@, 10),
                                            !.receptor_lon = RoundHalfEven(@, 10),
                                            !.receptor_zagl = RoundHalfEven(@, 10)]]
    /\ pc' = "fmt_out"
    /\ UNCHANGED <<configs, dem, oof, rc, gsh, files, outcome, runs>>

\* receptor_df = ac.slant_df_to_rec_df(slant_df)
FmtApply ==
    /\ pc = "fmt_in"
    /\ receptor_df' = slant_df_to_rec_df(slant_df)
    /\ pc' = "fmt_out"
    /\ UNCHANGED <<configs, dem, oof, rc, gsh, slant_df, files, outcome, runs>>

\* a second call on the same table: receptor_df = ac.slant_df_to_rec_df(slant_df)
FmtApplyAgain ==
    /\ pc = "fmt_out"
    /\ receptor_df' = slant_df_to_rec_df(slant_df)
    /\ pc' = "fmt_twice"
    /\ UNCHANGED <<configs, dem, oof, rc, gsh, slant_df, files, outcome, runs>>

NextFmt ==
    \/ FmtApply
    \/ FmtApplyAgain

SpecFmt == InitFmt /\ [][NextFmt]_vars

---------------------------------------------------------------------------
(* Construction of the configuration objects: run_config_obj and StiltConfig *)

\* a timezone-aware datetime: the wall clock time and the zone's UTC offset
dtstr_to_dttz(dt_str, timezone) == [wall |-> dt_str, utcoffset |-> timezone]

\* the point in time of an aware datetime, which is what < and > compare
Instant(d) == d.wall - d.utcoffset

\* d.astimezone(pytz.UTC)
astimezone_utc(d) == [wall |-> Instant(d), utcoffset |-> 0]

\* d.date(): the calendar day of the wall clock time
date(d) == d.wall \div Day

\* the aware datetime at the wall clock time hh:mm:ss (in half seconds after
\* midnight) of the calendar day dy, in the zone tz
combine(dy, halfsecs, tz) == [wall |-> dy * Day + halfsecs, utcoffset |-> tz]

\* 23:59:59 as half seconds after midnight
LastSecond == Day - 2

\* run_config_obj.get_split_dt_ranges after its check of the order
get_split_dt_ranges(start_dt, end_dt, tz) ==
    IF date(start_dt) = date(end_dt)
    THEN <<[dt1 |-> start_dt, dt2 |-> end_dt]>>
    ELSE [i \in 1..(date(end_dt) - date(start_dt) + 1) |->
            LET dy == date(start_dt) + (i - 1)
            IN  IF dy = date(start_dt) THEN [dt1 |-> start_dt, dt2 |-> combine(dy, LastSecond, tz)]
                ELSE IF dy = date(end_dt) THEN [dt1 |-> combine(dy, 0, tz), dt2 |-> end_dt]
                ELSE [dt1 |-> combine(dy, 0, tz), dt2 |-> combine(dy, LastSecond, tz)]]

\* StiltConfig.get_split_dt_ranges after its check of the order: the loop
\* over the days from the start's to the end's, in UTC
StiltConfig_get_split_dt_ranges(start_dt_utc, end_dt_utc) ==
    [i \in 1..(date(end_dt_utc) - date(start_dt_utc) + 1) |->
        LET current == date(start_dt_utc) + (i - 1)
        IN  IF current = date(start_dt_utc) THEN [dt1 |-> start_dt_utc, dt2 |-> combine(current, LastSecond, 0)]
            ELSE IF current = date(end_dt_utc) THEN [dt1 |-> combine(current, 0, 0), dt2 |-> end_dt_utc]
            ELSE [dt1 |-> combine(current, 0, 0), dt2 |-> combine(current, LastSecond, 0)]]

\* the start and end times of the yaml files: wall clock times on four days
CfgTimes == {T(18, 0), T(20, 0), T(23, 7198), T(24, 0), T(30, 0), T(60, 0), T(90, 1800)}

\* the zones of the yaml files as UTC offsets: UTC and US/Mountain in June
CfgZones == {0, -6 * Hour}

CfgClasses == {"run_config_obj", "StiltConfig"}

\* the object before __init__ runs: the yaml's values, no split_dt_ranges yet
InitCfg ==
    /\ configs \in [class : CfgClasses, start_dt_str : CfgTimes, end_dt_str : CfgTimes,
                    timezone : CfgZones, split_dt_ranges : {<<>>}]
    /\ pc = "cfg_new"
    /\ outcome = "none"
    /\ dem = DemFlat
    /\ oof = <<>>
    /\ rc = [dt1 |-> T(18, 0), dt2 |-> T(20, 0)]
    /\ gsh = NoGsh
    /\ slant_df = <<>>
    /\ receptor_df = <<>>
    /\ files = [p \in Paths |-> NoFile]
    /\ runs = 0

\* run_config_obj.__init__ without the check of the order
RunConfigObjInit_nocheck ==
    /\ pc = "cfg_new" /\ configs.class = "run_config_obj"
    /\ LET start_dt == dtstr_to_dttz(configs.start_dt_str, configs.timezone)
           end_dt   == dtstr_to_dttz(configs.end_dt_str, configs.timezone)
       IN  /\ configs' = [configs EXCEPT !.split_dt_ranges =
                                get_split_dt_ranges(start_dt, end_dt, configs.timezone)]
           /\ pc' = "cfg_done" /\ outcome' = "ok"
    /\ UNCHANGED <<dem, oof, rc, gsh, slant_df, receptor_df, files, runs>>

\* run_config_obj.__init__: parse the datetimes, split them into daily ranges
RunConfigObjInit ==
    /\ pc = "cfg_new" /\ configs.class = "run_config_obj"
    /\ LET start_dt == dtstr_to_dttz(configs.start_dt_str, configs.timezone)
           end_dt   == dtstr_to_dttz(configs.end_dt_str, configs.timezone)
       IN  IF Instant(start_dt) > Instant(end_dt)
           THEN /\ pc' = "cfg_done" /\ outcome' = "raised"
                /\ configs' = configs
           ELSE /\ configs' = [configs EXCEPT !.split_dt_ranges =
                                    get_split_dt_ranges(start_dt, end_dt, configs.timezone)]
                /\ pc' = "cfg_done" /\ outcome' = "ok"
    /\ UNCHANGED <<dem, oof, rc, gsh, slant_df, receptor_df, files, runs>>

\* StiltConfig.__init__: parse the datetimes, convert to UTC, split
StiltConfigInit ==
    /\ pc = "cfg_new" /\ configs.class = "StiltConfig"
    /\ LET start_dt_utc == astimezone_utc(dtstr_to_dttz(configs.start_dt_str, configs.timezone))
           end_dt_utc   == astimezone_utc(dtstr_to_dttz(configs.end_dt_str, configs.timezone))
       IN  IF Instant(start_dt_utc) > Instant(end_dt_utc)
           THEN /\ pc' = "cfg_done" /\ outcome' = "raised"
                /\ configs' = configs
           ELSE /\ configs' = [configs EXCEPT !.split_dt_ranges =
                                    StiltConfig_get_split_dt_ranges(start_dt_utc, end_dt_utc)]
                /\ pc' = "cfg_done" /\ outcome' = "ok"
    /\ UNCHANGED <<dem, oof, rc, gsh, slant_df, receptor_df, files, runs>>

NextCfg ==
    \/ RunConfigObjInit
    \/ StiltConfigInit

SpecCfg == InitCfg /\ [][NextCfg]_vars

---------------------------------------------------------------------------
(* StiltReceptors writing a receptor file: create_for_stilt, then append_df *)

\* the receptor tables handed to append_df: those made from one slant row,
\* and from two slant rows 100 m above the instrument
StiltTables ==
    {slant_df_to_rec_df(t) : t \in [1..1 -> FmtRows] \cup [1..2 -> {r \in FmtRows : r.z_ail = 100000}]}

\* a StiltReceptors object made with dt1 and dt2, over the receptor folder
InitStilt ==
    /\ configs \in {c \in Configs : /\ c.column_type \in {"ground", "em27"} /\ c.inst_lat = 4076600
                                     /\ c.z_ail_list = <<0>> /\ c.interval = Hour}
    /\ rc \in {[dt1 |-> r[1], dt2 |-> r[2]] : r \in DtRanges}
    /\ receptor_df \in StiltTables
    /\ files \in {[p \in Paths |-> NoFile], [p \in Paths |-> OldFile]}
    /\ pc = "stilt_new"
    /\ outcome = "none"
    /\ runs = 0
    /\ dem = DemFlat
    /\ oof = <<>>
    /\ gsh = NoGsh
    /\ slant_df = <<>>

\* create_for_stilt: receptor_header, then create_overwrite, which opens
\* the file with 'w' and writes the text and a newline
CreateForStilt ==
    /\ pc = "stilt_new"
    /\ runs' = runs + 1
    /\ LET header == StiltReceptors_receptor_header(configs, runs + 1, rc.dt1, rc.dt2)
       IN  files' = [files EXCEPT ![receptor_fullpath] =
                        [exists |-> TRUE, header |-> LinesOfText(header \o <<Newline>>, <<>>),
                         columns |-> <<>>, tables |-> <<>>]]
    /\ pc' = "stilt_created"
    /\ UNCHANGED <<configs, dem, oof, rc, gsh, slant_df, receptor_df, outcome>>

\* append_df: df.to_csv(self.full_filepath, mode = 'a', index = False)
AppendDf ==
    /\ pc = "stilt_created"
    /\ files' = [files EXCEPT ![receptor_fullpath] =
                    [exists |-> TRUE, header |-> @.header,
                     columns |-> Append(@.columns, slant_df_to_rec_df_columns),
                     tables |-> Append(@.tables, receptor_df)]]
    /\ pc' = "stilt_done"
    /\ outcome' = "ok"
    /\ UNCHANGED <<configs, dem, oof, rc, gsh, slant_df, receptor_df, runs>>

\* another StiltReceptors object, for the same or another range and table
StiltNextRange ==
    /\ pc = "stilt_done"
    /\ runs < MaxRuns
    /\ rc' \in {[dt1 |-> r[1], dt2 |-> r[2]] : r \in DtRanges}
    /\ receptor_df' \in StiltTables
    /\ pc' = "stilt_new"
    /\ outcome' = "none"
    /\ UNCHANGED <<configs, dem, oof, gsh, slant_df, files, runs>>

\* the lines parse_rec_header reads: readline until a line is empty, that
\* line included
RECURSIVE ReadHeaderLines(_)
ReadHeaderLines(lines) ==
    IF Len(lines) = 0 THEN <<BlankLine>>
    ELSE IF Head(lines) = BlankLine THEN <<BlankLine>>
    ELSE <<Head(lines)>> \o ReadHeaderLines(Tail(lines))

\* a StiltReceptors made for loading: no location, no datetimes and no
\* data_datestr attribute yet
NoDatestr == [str |-> "AttributeError", nums |-> <<>>]

NoMetadata ==
    [inst_lat |-> NaN, inst_lon |-> NaN, inst_zasl |-> NaN, dt1 |-> NaN, dt2 |-> NaN,
     data_datestr |-> NoDatestr, error |-> ""]

\* datetime.strptime(text, '%Y-%m-%d %H:%M:%S%z') of a printed datetime:
\* whole seconds with an offset parse, a fraction of a second does not
strptime(dt) == IF dt % 2 = 0 THEN dt ELSE NaN

\* the body of the loop of parse_rec_header for one line: the text before
\* the first colon chooses the attribute; the location is the three numbers
\* between the commas, with 'masl' stripped from the third; the datetimes
\* are what follows 'Datetime range:' on either side of the comma
ParseHeaderLine(obj, line) ==
    LET loc == IF line.key # "Instrument Location" THEN obj
               ELSE IF Len(line.nums) # 3 THEN [obj EXCEPT !.error = "IndexError"]
               ELSE [obj EXCEPT !.inst_lat = line.nums[1], !.inst_lon = line.nums[2],
                                !.inst_zasl = line.nums[3]]
        rng == IF line.key # "Datetime range" THEN loc
               ELSE IF Len(line.nums) # 2 \/ line.str # "," THEN [loc EXCEPT !.error = "IndexError"]
               ELSE IF line.sep # ":" \/ NaN \in {strptime(line.nums[1]), strptime(line.nums[2])}
                    THEN [loc EXCEPT !.error = "ValueError"]
               ELSE [loc EXCEPT !.dt1 = strptime(line.nums[1]), !.dt2 = strptime(line.nums[2])]
    IN  IF line.key # "Data date" THEN rng
        ELSE [rng EXCEPT !.data_datestr = [str |-> line.str, nums |-> line.nums]]

RECURSIVE ParseHeaderLines(_, _)
ParseHeaderLines(obj, lines) ==
    IF Len(lines) = 0 \/ obj.error # "" THEN obj
    ELSE ParseHeaderLines(ParseHeaderLine(obj, Head(lines)), Tail(lines))

\* parse_rec_header on the file f
parse_rec_header(f) == ParseHeaderLines(NoMetadata, ReadHeaderLines(f.header))

\* a StiltReceptors made for loading the file just written, and its
\* parse_rec_header
ParseRecHeader ==
    /\ pc = "stilt_done"
    /\ gsh' = parse_rec_header(files[receptor_fullpath])
    /\ pc' = "stilt_loaded"
    /\ outcome' = IF gsh'.error = "" THEN "ok" ELSE "raised"
    /\ UNCHANGED <<configs, dem, oof, rc, slant_df, receptor_df, files, runs>>

NextStilt ==
    \/ CreateForStilt
    \/ AppendDf
    \/ StiltNextRange
    \/ ParseRecHeader

SpecStilt == InitStilt /\ [][NextStilt]_vars

\* the two writers of receptor files side by side
InitWriters == Init \/ InitStilt

NextWriters ==
    \/ Next
    \/ NextStilt

SpecWriters == InitWriters /\ [][NextWriters]_vars

---------------------------------------------------------------------------
(* One DEM_handler and the terrain lookups made on it *)

\* most lookups made on one handler
MaxLookups == 3

\* the dem_typeid of the configuration: the recognised one and another
DemTypeIds == {"aster", "srtm"}

\* the points looked up: two on the raster, one far north of it, and the
\* undefined position of a night row
DemPoints == {<<4076600, -11184700>>, <<4076515, -11184705>>, <<4176600, -11184700>>, <<NaN, NaN>>}

\* a DEM_handler after __init__: no dem_ds attribute yet (dem_ds = 0);
\* opens counts the calls of xr.open_dataset, and the dataset the k-th call
\* returns is the handle k; raster is the file's content
InitDem ==
    /\ dem \in [dem_typeid : DemTypeIds, dem_ds : {0}, opens : {0}, raster : {DemFlat, DemRidge}]
    /\ pc = "dem"
    /\ outcome = "none"
    /\ runs = 0
    /\ slant_df = <<>>
    /\ receptor_df = <<>>
    /\ configs \in {c \in Configs : c.column_type = "ground" /\ c.z_ail_list = <<0>> /\ c.interval = Hour /\ c.inst_zasl = 1300004}
    /\ oof = <<>>
    /\ rc = [dt1 |-> T(18, 0), dt2 |-> T(20, 0)]
    /\ gsh = NoGsh
    /\ files = [p \in Paths |-> NoFile]

\* define_dem_ds called by every lookup, the dataset opened again each time
DemLookup_always_define ==
    /\ pc = "dem"
    /\ runs < MaxLookups
    /\ runs' = runs + 1
    /\ \E pt \in DemPoints :
          IF dem.dem_typeid = "aster"
          THEN /\ dem' = [dem EXCEPT !.dem_ds = dem.opens + 1, !.opens = dem.opens + 1]
               /\ slant_df' = Append(slant_df, [receptor_lat |-> pt[1], receptor_lon |-> pt[2],
                                                receptor_shasl |-> get_nearest_elev(dem.raster, pt[1], pt[2])])
               /\ outcome' = "ok"
          ELSE /\ outcome' = "raised"
               /\ UNCHANGED <<dem, slant_df>>
    /\ UNCHANGED <<configs, oof, rc, gsh, receptor_df, files, pc>>

\* get_nearest_elev(pt_lat, pt_lon) on the handler: get_sub_dem_df finds
\* dem_ds or calls define_dem_ds, which opens the dataset for 'aster' and
\* raises for any other type; the lookups made so far are kept in slant_df
DemLookup ==
    /\ pc = "dem"
    /\ runs < MaxLookups
    /\ runs' = runs + 1
    /\ \E pt \in DemPoints :
          IF dem.dem_ds # 0 \/ dem.dem_typeid = "aster"
          THEN /\ dem' = IF dem.dem_ds # 0 THEN dem
                         ELSE [dem EXCEPT !.dem_ds = dem.opens + 1, !.opens = dem.opens + 1]
               /\ slant_df' = Append(slant_df, [receptor_lat |-> pt[1], receptor_lon |-> pt[2],
                                                receptor_shasl |-> get_nearest_elev(dem.raster, pt[1], pt[2])])
               /\ outcome' = "ok"
          ELSE /\ outcome' = "raised"
               /\ UNCHANGED <<dem, slant_df>>
    /\ UNCHANGED <<configs, oof, rc, gsh, receptor_df, files, pc>>

NextDem == DemLookup

SpecDem == InitDem /\ [][NextDem]_vars

---------------------------------------------------------------------------
(* stilt_setup: the STILT project of one range and the loop of full_setup *)

\* most calls of stilt_init made by one full_setup
MaxInits == 3

\* dt.strftime(fmt): the format and the day it is filled with
strftime(dt, fmt) == [fmt |-> fmt, day |-> dt \div Day]

\* Python's None as the stilt_name argument
None == [fmt |-> "None", day |-> NaN]

\* Python's None as a response, among the exit statuses
NoneResponse == NaN

\* an attribute that was never assigned
NoAttribute == [fmt |-> "AttributeError", day |-> NaN]

\* the ranges a stilt_setup is made for: an afternoon, and the next whole day
SetupRanges == {<<T(18, 0), T(20, 0)>>, <<Day, Day + LastSecond>>}

\* the name full_run makes for the project of the range starting at dt1
full_run_stilt_name(dt1) == strftime(dt1, "%Y%m%d_stilt")

\* the directories that can stand in configs.folder_paths['stilt_folder']
ProjectNames ==
    UNION {{strftime(r[1], "%Y%m%d"), full_run_stilt_name(r[1])} : r \in SetupRanges}

\* a project directory: absent, or initialised with its 'r' folder
NoProject == [exists |-> FALSE, r |-> FALSE, receptors |-> FALSE]

ReadyProject == [exists |-> TRUE, r |-> TRUE, receptors |-> FALSE]

\* the locals of the caller and of full_setup: the stilt_name argument, the
\* last response of stilt_init, the prompts shown, the deletions started,
\* and the exception that ended the call
NoLocals == [stilt_name |-> None, response |-> NoneResponse, prompts |-> 0, deletes |-> 0, error |-> ""]

\* before a stilt_setup is constructed: the stilt folder holds no project,
\* or the projects of an earlier run
InitSetup ==
    /\ configs \in {c \in Configs : /\ c.column_type \in {"ground", "em27"} /\ c.inst_lat = 4076600
                                     /\ c.z_ail_list = <<0>> /\ c.interval = Hour}
    /\ files \in [ProjectNames -> {NoProject, ReadyProject}]
    /\ rc = [dt1 |-> NaN, dt2 |-> NaN, stilt_name |-> NoAttribute]
    /\ gsh = NoLocals
    /\ pc = "ss_new"
    /\ outcome = "none"
    /\ runs = 0
    /\ dem = DemFlat
    /\ oof = <<>>
    /\ slant_df = <<>>
    /\ receptor_df = <<>>

\* stilt_setup.__init__(configs, dt1, dt2, stilt_name): self.stilt_name is
\* assigned in the branch of stilt_name is None, and there is no other branch
StiltSetupNew ==
    /\ pc = "ss_new"
    /\ \E r \in SetupRanges : \E stilt_name \in {None, full_run_stilt_name(r[1])} :
          /\ rc' = [dt1 |-> r[1], dt2 |-> r[2],
                    stilt_name |-> IF stilt_name = None THEN strftime(r[1], "%Y%m%d")
                                   ELSE NoAttribute]
          /\ gsh' = [NoLocals EXCEPT !.stilt_name = stilt_name]
    /\ pc' = "ss_loop"
    /\ UNCHANGED <<configs, dem, oof, slant_df, receptor_df, files, outcome, runs>>

\* response = self.stilt_init(): a bare return when the project's 'r' folder
\* is there, else the exit status of Rscript, which makes the project folder
\* and, when it succeeds, all of its content
StiltInit ==
    /\ pc = "ss_loop"
    /\ runs < MaxInits
    /\ runs' = runs + 1
    /\ IF rc.stilt_name = NoAttribute
       THEN /\ gsh' = [gsh EXCEPT !.error = "AttributeError"]
            /\ outcome' = "raised"
            /\ pc' = "ss_end"
            /\ UNCHANGED files
       ELSE /\ IF files[rc.stilt_name].r
               THEN /\ gsh' = [gsh EXCEPT !.response = NoneResponse]
                    /\ UNCHANGED files
               ELSE \E response \in {0, 1} : \E r \in BOOLEAN :
                       /\ response = 0 => r
                       /\ gsh' = [gsh EXCEPT !.response = response]
                       /\ files' = [files EXCEPT ![rc.stilt_name] =
                                       [exists |-> TRUE, r |-> r, receptors |-> @.receptors]]
            /\ pc' = "ss_response"
            /\ UNCHANGED outcome
    /\ UNCHANGED <<configs, dem, oof, rc, slant_df, receptor_df>>

\* the body of the loop after stilt_init: int(response) == 0 leaves the loop,
\* int(None) raises TypeError, any other response prompts; on 'y' rm -rf is
\* started with os.popen, which does not wait for it, and the loop goes
\* round; any other answer is sys.exit
FullSetupResponse ==
    /\ pc = "ss_response"
    /\ IF gsh.response = NoneResponse
       THEN /\ gsh' = [gsh EXCEPT !.error = "TypeError"]
            /\ outcome' = "raised"
            /\ pc' = "ss_end"
            /\ UNCHANGED files
       ELSE IF gsh.response = 0
       THEN /\ pc' = "ss_rec_folder"
            /\ UNCHANGED <<gsh, outcome, files>>
       ELSE \E retry \in {"y", "n"} :
               IF retry = "y"
               THEN /\ gsh' = [gsh EXCEPT !.prompts = @ + 1, !.deletes = @ + 1]
                    /\ \E gone \in BOOLEAN :
                          files' = IF gone THEN [files EXCEPT ![rc.stilt_name] = NoProject]
                                   ELSE files
                    /\ pc' = "ss_loop"
                    /\ UNCHANGED outcome
               ELSE /\ gsh' = [gsh EXCEPT !.prompts = @ + 1, !.error = "SystemExit"]
                    /\ outcome' = "exit"
                    /\ pc' = "ss_end"
                    /\ UNCHANGED files
    /\ UNCHANGED <<configs, dem, oof, rc, slant_df, receptor_df, runs>>

\* create_rec_folder_in_stilt: os.mkdir unless the folder is there
CreateRecFolderInStilt ==
    /\ pc = "ss_rec_folder"
    /\ files' = [files EXCEPT ![rc.stilt_name].receptors = TRUE]
    /\ pc' = "ss_rec_files"
    /\ UNCHANGED <<configs, dem, oof, rc, gsh, slant_df, receptor_df, outcome, runs>>

\* the rest of full_setup: the receptor files of the range are found and
\* moved, the config is copied, and run_stilt.r is rewritten unless no
\* receptor file was found, which raises
FullSetupRest ==
    /\ pc = "ss_rec_files"
    /\ \E receptor_fnames \in {0, 1} :
          IF receptor_fnames = 0
          THEN /\ gsh' = [gsh EXCEPT !.error = "Exception"]
               /\ outcome' = "raised"
          ELSE /\ outcome' = "ok"
               /\ UNCHANGED gsh
    /\ pc' = "ss_end"
    /\ UNCHANGED <<configs, dem, oof, rc, slant_df, receptor_df, files, runs>>

NextSetup ==
    \/ StiltSetupNew
    \/ StiltInit
    \/ FullSetupResponse
    \/ CreateRecFolderInStilt
    \/ FullSetupRest

SpecSetup == InitSetup /\ [][NextSetup]_vars

---------------------------------------------------------------------------
(* Receptor files as lines, and the reader's choice of the table header *)

\* the lines to_csv writes for a table: the column names, then the rows
TableLines(t) == <<"columns">> \o [i \in 1..Len(t) |-> "row"]

RECURSIVE AllTableLines(_)
AllTableLines(tables) ==
    IF Len(tables) = 0 THEN <<>> ELSE TableLines(Head(tables)) \o AllTableLines(Tail(tables))

\* what each line of the file f is: header text, empty, column names, row
LineKinds(f) ==
    [i \in 1..Len(f.header) |-> IF f.header[i] = BlankLine THEN "blank" ELSE "text"]
        \o AllTableLines(f.tables)

\* pd.read_csv(path, header = 6): with skip_blank_lines at its default the
\* empty lines are not counted, so the header is the 7th line that is not
\* empty; the number of that line in the file, 0 if there is none
read_rec_csv_header(f) ==
    LET lines == {i \in 1..Len(LineKinds(f)) : LineKinds(f)[i] # "blank"}
    IN  IF Cardinality(lines) < 6 + 1 THEN 0 ELSE NthIdx(lines, 6 + 1)

---------------------------------------------------------------------------
(* Properties *)

\* the formatter has run on slant_df and receptor_df is its result
Formatted == pc \in {"header", "to_csv", "fmt_out", "fmt_twice"} \/ (pc = "done" /\ outcome = "ok")

\* the positions of the slant rows whose time, position, heights are all defined
DefinedIdx(df) ==
    {k \in 1..Len(df) : /\ ~IsNa(df[k].dt) /\ ~IsNa(df[k].z_ail) /\ ~IsNa(df[k].receptor_zasl)
                        /\ ~IsNa(df[k].receptor_lat) /\ ~IsNa(df[k].receptor_lon)
                        /\ ~IsNa(df[k].receptor_zagl)}

\* C1: the sim_id values of the receptor rows are exactly 0..N-1, N the number
\* of slant rows that survive the drop, assigned in the survivors' original
\* order: the i-th receptor row is the i-th surviving slant row and has
\* sim_id i-1, wherever the dropped rows were.
C1_SimIdDense ==
    Formatted =>
        /\ Len(receptor_df) = Cardinality(DefinedIdx(slant_df))
        /\ \A i \in 1..Len(receptor_df) :
              /\ receptor_df[i].sim_id = i - 1
              /\ receptor_df[i].zail = slant_df[NthIdx(DefinedIdx(slant_df), i)].z_ail
              /\ receptor_df[i].zasl = slant_df[NthIdx(DefinedIdx(slant_df), i)].receptor_zasl
              /\ receptor_df[i].run_times \in {slant_df[NthIdx(DefinedIdx(slant_df), i)].dt + e : e \in {-1, 0, 1}}

\* a dropped row lies before a surviving row, and two rows survive
C1_Witness ==
    /\ pc = "fmt_out"
    /\ Len(receptor_df) = 2
    /\ 1 \notin DefinedIdx(slant_df)
    /\ receptor_df[2].sim_id = 1

\* the sun is below the horizon at the instrument at time t
SunDown(t) == SolZenDeg(gsh.inst_lat, gsh.inst_lon, t) > 90

\* C2: at a timestamp where the solar zenith angle at the instrument exceeds
\* 90 degrees every slant row, whatever its height, has the undefined position
\* (nan, nan), and once the table is formatted no receptor row has that timestamp.
C2_HorizonExclusion ==
    /\ (pc \in {"add_sh", "guard", "format", "header", "to_csv", "done"}) =>
          \A k \in 1..Len(slant_df) :
              SunDown(slant_df[k].dt) => IsNa(slant_df[k].receptor_lat) /\ IsNa(slant_df[k].receptor_lon)
    /\ (pc \in {"header", "to_csv", "done"}) =>
          \A i \in 1..Len(receptor_df) : ~SunDown(receptor_df[i].run_times)

\* a written table built from a range with a night timestamp and a day timestamp
C2_Witness ==
    /\ pc = "done" /\ outcome = "ok"
    /\ \E k \in 1..Len(slant_df) : SunDown(slant_df[k].dt) /\ slant_df[k].z_ail > 0
    /\ Len(receptor_df) > 0

\* C3: in every receptor row z_is_agl is True if and only if the row's zagl,
\* the value of the output row rounded to 2 decimals, is greater than 0.
C3_FlagIffRoundedZagl ==
    Formatted => \A i \in 1..Len(receptor_df) : receptor_df[i].z_is_agl <=> receptor_df[i].zagl > 0

HasPosAndAgl(row) ==
    ~IsNa(row.receptor_lat) /\ ~IsNa(row.receptor_lon) /\ ~IsNa(row.receptor_zagl)

\* C5: run_slant_at_intervals raises, and returns no table, exactly when no row
\* of the built table has both a defined position and a defined height above
\* ground (so always for a range entirely at night); a table it returns has
\* such a row.
C5_TotalCoverageGuard ==
    [][pc = "guard" =>
          /\ (outcome' = "raised" /\ pc' = "done") <=> ~\E k \in 1..Len(slant_df) : HasPosAndAgl(slant_df[k])
          /\ (pc' = "format") <=> \E k \in 1..Len(slant_df) : HasPosAndAgl(slant_df[k])]_vars

\* the builder raised on the table of a range at night and three heights
C5_Witness ==
    /\ pc = "done" /\ outcome = "raised" /\ Len(slant_df) = 6
    /\ \A k \in 1..Len(slant_df) : SunDown(slant_df[k].dt)

\* the run number stamped on a receptor file ('Created at')
CreatedAt(f) == f.header[4].nums[1]

\* C6: when the slant column builder raises inside ground_rec_creator or
\* em27_rec_creator, the call has created no receptor file and has left every
\* existing file as it was: no file carries the stamp of the raising call, and
\* a file of an earlier invocation is untouched.
C6_RaiseLeavesFiles ==
    (pc = "done" /\ outcome = "raised") =>
        \A p \in Paths :
            files[p].exists =>
                /\ CreatedAt(files[p]) < runs
                /\ Len(files[p].tables) = 1
                /\ CreatedAt(files[p]) = 0 => files[p] = OldFile

\* the builder raised in ground mode and in the second call, a file written
\* by the first call and a file of an earlier invocation being on disk
C6_Witness ==
    /\ pc = "done" /\ outcome = "raised" /\ Len(slant_df) > 0
    /\ configs.column_type \in {"ground", "em27"}
    /\ files[receptor_fullpath] = OldFile
    /\ \E p \in Paths : files[p].exists /\ CreatedAt(files[p]) = 1
    /\ runs = 2

\* C7: create_initial_slantdf builds one slant row per pair of the cross
\* product: for the i-th datetime of the window (dt1 + (i-1) hours) and the
\* j-th height of the list, row (i-1)*len(heights) + j has that datetime and
\* that height, and there are no other rows; heights are taken as listed.
C7_CrossProduct ==
    (pc = "add_sh") =>
        LET n == IF gsh.dt1 > gsh.dt2 THEN 0 ELSE (gsh.dt2 - gsh.dt1) \div Hour + 1
            m == Len(gsh.z_ail_list)
        IN  /\ Len(slant_df) = n * m
            /\ \A i \in 1..n : \A j \in 1..m :
                  /\ slant_df[(i - 1) * m + j].dt = gsh.dt1 + (i - 1) * Hour
                  /\ slant_df[(i - 1) * m + j].z_ail = gsh.z_ail_list[j]

\* three datetimes and the height list 100, 0, 100
C7_Witness ==
    /\ pc = "add_sh"
    /\ gsh.z_ail_list = <<100000, 0, 100000>>
    /\ Len(slant_df) = 9
    /\ slant_df[4].z_ail = 100000 /\ slant_df[5].z_ail = 0 /\ slant_df[6].z_ail = 100000

\* C8: in every row of the slant table, the rows of night timestamps included,
\* the elevation above sea level is defined and is the instrument elevation
\* plus the height above the instrument; in every receptor row zasl is the
\* instrument elevation plus zail.
C8_ZaslAlwaysDefined ==
    /\ (pc \in {"add_sh", "guard", "format", "header", "to_csv", "done"}) =>
          \A k \in 1..Len(slant_df) :
              /\ ~IsNa(slant_df[k].receptor_zasl)
              /\ slant_df[k].receptor_zasl = gsh.inst_zasl + slant_df[k].z_ail
    /\ (pc \in {"header", "to_csv", "done"}) =>
          \A i \in 1..Len(receptor_df) : receptor_df[i].zasl = gsh.inst_zasl + receptor_df[i].zail

\* a written table from a window with a night row above the instrument
C8_Witness ==
    /\ pc = "done" /\ outcome = "ok"
    /\ \E k \in 1..Len(slant_df) : IsNa(slant_df[k].receptor_lat) /\ slant_df[k].z_ail = 1000000
    /\ \E i \in 1..Len(receptor_df) : receptor_df[i].zail = 1000000

\* C9: in every slant row the height above ground is the elevation above sea
\* level minus the surface elevation of the terrain lookup, and is undefined
\* when the position or the surface elevation is undefined; with 1300 m
\* everywhere on the DEM and the instrument at 1492 m, every daylight
\* timestamp has its height-0 receptor rows, each with zagl 192.00, z_is_agl
\* True and zail 0.
C9_ZaglIsZaslMinusSurface ==
    /\ (pc \in {"guard", "format", "header", "to_csv", "done"}) =>
          \A k \in 1..Len(slant_df) :
              LET row == slant_df[k]
              IN  IF IsNa(row.receptor_lat) \/ IsNa(row.receptor_lon) \/ IsNa(row.receptor_shasl)
                  THEN IsNa(row.receptor_zagl)
                  ELSE row.receptor_zagl = row.receptor_zasl - row.receptor_shasl
    /\ (pc \in {"header", "to_csv", "done"} /\ dem = DemFlat /\ gsh.inst_zasl = 1492000) =>
          /\ \A i \in 1..Len(receptor_df) :
                receptor_df[i].zail = 0 => receptor_df[i].zagl = 192000 /\ receptor_df[i].z_is_agl
          /\ \A k \in 1..Len(slant_df) :
                (slant_df[k].z_ail = 0 /\ ~SunDown(slant_df[k].dt) /\ Len(receptor_df) > 0) =>
                    \E i \in 1..Len(receptor_df) :
                        /\ receptor_df[i].run_times = slant_df[k].dt
                        /\ receptor_df[i].zail = 0 /\ receptor_df[i].zagl = 192000

\* the scenario: heights 0, 100, 1000 m, hourly from 18:00 to 20:00, all rows written
C9_Witness ==
    /\ pc = "done" /\ outcome = "ok"
    /\ dem = DemFlat /\ gsh.inst_zasl = 1492000
    /\ gsh.z_ail_list = <<0, 100000, 1000000>>
    /\ gsh.dt1 = T(18, 0) /\ gsh.dt2 = T(20, 0)
    /\ Len(receptor_df) = 9
    /\ receptor_df[7].zagl = 192000 /\ receptor_df[7].zail = 0 /\ receptor_df[7].z_is_agl

\* C10: the terrain lookup gives an undefined surface elevation at every point
\* outside the spatial coverage of the DEM, so a batch with such points and a
\* fully defined point is written without them: every row of a receptor table
\* lies inside the coverage.
C10_OutsideCoverageUndefined ==
    /\ (pc \in {"guard", "format", "header", "to_csv", "done"}) =>
          \A k \in 1..Len(slant_df) :
              ~InCoverage(slant_df[k].receptor_lat, slant_df[k].receptor_lon) =>
                  IsNa(slant_df[k].receptor_shasl)
    /\ (pc \in {"header", "to_csv", "done"}) =>
          \A i \in 1..Len(receptor_df) :
              \E k \in 1..Len(slant_df) :
                  /\ InCoverage(slant_df[k].receptor_lat, slant_df[k].receptor_lon)
                  /\ slant_df[k].dt = receptor_df[i].run_times
                  /\ slant_df[k].z_ail = receptor_df[i].zail

---------------------------------------------------------------------------
\* the datetimes run_slant_at_intervals is about to build, at the step given
DtListOf(step) == create_dt_list(gsh.dt1, gsh.dt2, step)

\* C11 as stated: for every start <= end and every step the list is dt1,
\* dt1 + step, ... in ascending order and holds both endpoints dt1 and dt2.
C11_BothEndpoints ==
    pc = "slant" /\ gsh.dt1 <= gsh.dt2 =>
        \A step \in Intervals :
            LET l == DtListOf(step)
            IN  /\ Len(l) >= 1
                /\ l[1] = gsh.dt1
                /\ \A i \in 1..(Len(l) - 1) : l[i + 1] = l[i] + step
                /\ l[Len(l)] = gsh.dt2

\* C11 amended: the list is dt1, dt1 + step, ... up to the last such time
\* that is not after dt2; it holds dt1 always, and dt2 exactly when dt2 is a
\* whole number of steps after dt1.
C11_GridFromStart ==
    pc = "slant" /\ gsh.dt1 <= gsh.dt2 =>
        \A step \in Intervals :
            LET l == DtListOf(step)
            IN  /\ Len(l) >= 1
                /\ l[1] = gsh.dt1
                /\ \A i \in 1..(Len(l) - 1) : l[i + 1] = l[i] + step
                /\ l[Len(l)] <= gsh.dt2 /\ gsh.dt2 < l[Len(l)] + step
                /\ (l[Len(l)] = gsh.dt2) <=> ((gsh.dt2 - gsh.dt1) % step = 0)

\* a range whose end is on the grid of neither step: 17:30 to 18:45, where
\* the hourly list is 17:30, 18:30 and the half-hourly one 17:30, 18:00, 18:30
C11_Witness ==
    /\ pc = "slant" /\ gsh.dt1 = T(17, 3600) /\ gsh.dt2 = T(18, 5400)
    /\ Len(DtListOf(Hour)) = 2 /\ Len(DtListOf(Hour \div 2)) = 3

---------------------------------------------------------------------------
\* the instrument data of the creator's range, as em27_rec_creator loaded it
OofInRange == load_oof_df_inrange(rc.dt1, rc.dt2)

\* C12: in em27 mode the window handed to the slant builder starts at the
\* first instrument time snapped down to a step boundary and ends at the
\* last instrument time snapped up to a step boundary, or at the creator's
\* dt2 when that is earlier; the end is never after dt2.
C12_Em27Window ==
    pc = "slant" /\ configs.column_type = "em27" =>
        LET first == OofInRange[1].dt
            last  == OofInRange[Len(OofInRange)].dt
            step  == configs.interval
            up    == CHOOSE t \in last..(last + step - 1) : t % step = 0
        IN  /\ gsh.dt1 % step = 0
            /\ gsh.dt1 <= first /\ first < gsh.dt1 + step
            /\ gsh.dt2 = (IF up <= rc.dt2 THEN up ELSE rc.dt2)
            /\ gsh.dt2 <= rc.dt2

\* the only row in 17:30-18:45 is at 18:10:00.5: hourly, the start is
\* snapped down to 18:00 and the end, 19:00 after snapping, is cut to 18:45
C12_Witness ==
    /\ pc = "slant" /\ configs.column_type = "em27" /\ configs.interval = Hour
    /\ rc.dt2 = T(18, 5400) /\ OofInRange[1].dt = T(18, 1201)
    /\ gsh.dt1 = T(18, 0) /\ gsh.dt2 = T(18, 5400)

---------------------------------------------------------------------------
\* C13: with instrument data in range, em27_rec_creator raises at
\* check_get_loc whenever two rows differ in latitude, longitude or
\* elevation, and otherwise goes on with the three values of the first row;
\* the raising step writes no receptor file, and none is written after it.
C13_LocCheck ==
    [][/\ pc = "em27" /\ Len(OofInRange) > 0 =>
            IF \E i, j \in 1..Len(OofInRange) :
                    \/ OofInRange[i].inst_lat # OofInRange[j].inst_lat
                    \/ OofInRange[i].inst_lon # OofInRange[j].inst_lon
                    \/ OofInRange[i].inst_zasl # OofInRange[j].inst_zasl
            THEN pc' = "done" /\ outcome' = "raised" /\ files' = files
            ELSE /\ pc' = "slant"
                 /\ gsh'.inst_lat = OofInRange[1].inst_lat
                 /\ gsh'.inst_lon = OofInRange[1].inst_lon
                 /\ gsh'.inst_zasl = OofInRange[1].inst_zasl
       /\ outcome = "raised" => files' = files]_vars

\* the run has raised on instrument data whose rows differ in elevation only
C13_Witness ==
    /\ pc = "done" /\ outcome = "raised" /\ configs.column_type = "em27"
    /\ Len(OofInRange) = 2
    /\ OofInRange[1].inst_lat = OofInRange[2].inst_lat
    /\ OofInRange[1].inst_lon = OofInRange[2].inst_lon
    /\ OofInRange[1].inst_zasl # OofInRange[2].inst_zasl
    /\ files[receptor_fullpath] = NoFile

---------------------------------------------------------------------------
\* C14: for a column type other than 'ground' and 'em27', create_receptors
\* raises in its first step: the run ends there, no slant handler or slant
\* table has been made, and no receptor file is created or changed.
C14_UnknownTypeRaises ==
    [][pc = "start" /\ configs.column_type \notin {"ground", "em27"} =>
            /\ pc' = "done" /\ outcome' = "raised"
            /\ gsh' = NoGsh /\ slant_df' = <<>> /\ receptor_df' = <<>>
            /\ files' = files]_vars

\* the second run of a 'satellite' configuration has raised, over old files
C14_Witness ==
    /\ pc = "done" /\ outcome = "raised" /\ configs.column_type = "satellite"
    /\ runs = 2 /\ slant_df = <<>>
    /\ files = [p \in Paths |-> OldFile]

---------------------------------------------------------------------------
\* C15: constructing either configuration object with an end datetime
\* before the start datetime raises in get_split_dt_ranges, and the object
\* never gets a list of daily ranges.
C15_InvertedRangeRaises ==
    [][pc = "cfg_new" /\ configs.end_dt_str < configs.start_dt_str =>
            /\ pc' = "cfg_done" /\ outcome' = "raised"
            /\ configs'.split_dt_ranges = <<>>]_vars

\* a run_config_obj from 20:00 back to 18:00 of one day has raised
C15_Witness ==
    /\ pc = "cfg_done" /\ outcome = "raised" /\ configs.class = "run_config_obj"
    /\ configs.start_dt_str = T(20, 0) /\ configs.end_dt_str = T(18, 0)
    /\ configs.split_dt_ranges = <<>>

---------------------------------------------------------------------------
\* C16: when a run has written its receptor file, the file holds the header
\* of that run and, after it, the table of that run and nothing else,
\* whatever the path held before, for receptor_creator and StiltReceptors.
C16_OverwriteOnRerun ==
    /\ pc = "done" /\ outcome = "ok" =>
            files[receptor_fullpath] =
                [exists |-> TRUE, header |-> receptor_header(gsh.dt1, gsh.dt2),
                 columns |-> <<slant_df_to_rec_df_columns>>, tables |-> <<receptor_df>>]
    /\ pc = "stilt_done" =>
            /\ files[receptor_fullpath].tables = <<receptor_df>>
            /\ Len(files[receptor_fullpath].header) = 7
            /\ CreatedAt(files[receptor_fullpath]) = runs

\* a second run has written a table with rows over a file that was there
\* before (the old files at the other paths are as they were)
C16_Witness ==
    /\ pc = "done" /\ outcome = "ok" /\ runs = 2
    /\ Len(receptor_df) > 0
    /\ files[receptor_fullpath].tables = <<receptor_df>>
    /\ CreatedAt(files[receptor_fullpath]) = 2
    /\ \A p \in Paths \ {receptor_fullpath} : files[p] = OldFile

---------------------------------------------------------------------------
\* C17: a receptor file with its table written is six header lines, each
\* with its own key, one empty line, the line of column names and then the
\* rows; the line read_rec_csv takes as the table header is the line of
\* column names.
C17_FileLayout ==
    \A p \in Paths :
        files[p].exists /\ Len(files[p].tables) >= 1 =>
            LET kinds == LineKinds(files[p])
            IN  /\ Len(kinds) >= 8
                /\ \A i \in 1..6 : kinds[i] = "text"
                /\ \A i, j \in 1..6 : i # j => files[p].header[i].key # files[p].header[j].key
                /\ kinds[7] = "blank"
                /\ kinds[8] = "columns"
                /\ \A i \in 9..Len(kinds) : kinds[i] = "row"
                /\ read_rec_csv_header(files[p]) = 8

\* StiltReceptors has written a file with a table of two rows: ten lines
C17_Witness ==
    /\ pc = "stilt_done" /\ Len(receptor_df) = 2
    /\ LineKinds(files[receptor_fullpath]) =
            <<"text", "text", "text", "text", "text", "text", "blank", "columns", "row", "row">>
    /\ read_rec_csv_header(files[receptor_fullpath]) = 8

---------------------------------------------------------------------------
\* the file a run has written has the one line of column names given, and
\* the rows of its table have these columns
ColumnsInOrder(names) ==
    (pc = "done" /\ outcome = "ok") \/ pc = "stilt_done" =>
        /\ files[receptor_fullpath].columns = <<names>>
        /\ \A k \in 1..Len(receptor_df) : DOMAIN receptor_df[k] = {names[i] : i \in 1..Len(names)}

\* C18 as stated: the table of a receptor file has the columns run_times,
\* lati, long, zagl, z_is_agl, sim_id, zasl, zail, in this order.
C18_ColumnsSimIdSixth ==
    ColumnsInOrder(<<"run_times", "lati", "long", "zagl", "z_is_agl", "sim_id", "zasl", "zail">>)

\* C18 amended: the table of a receptor file has the eight columns sim_id,
\* run_times, lati, long, zagl, z_is_agl, zasl, zail, in this order: the
\* same names, with sim_id first.
C18_ColumnsSimIdFirst ==
    ColumnsInOrder(<<"sim_id", "run_times", "lati", "long", "zagl", "z_is_agl", "zasl", "zail">>)

\* a ground run has written a table of at least three rows
C18_Witness ==
    /\ pc = "done" /\ outcome = "ok" /\ configs.column_type = "ground"
    /\ Len(receptor_df) >= 3
    /\ files[receptor_fullpath].columns = <<slant_df_to_rec_df_columns>>
    /\ files[receptor_fullpath].columns[1][1] = "sim_id"

---------------------------------------------------------------------------
\* C19: in the file a run has written, the fifth header line has the key
\* 'Data date' and the start date printed as YYYYMMDD, and the sixth has the
\* key 'Datetime range' and the start and end datetimes with a comma
\* between them, whichever writer wrote the file.
C19_DateLines ==
    (pc = "done" /\ outcome = "ok") \/ pc = "stilt_done" =>
        LET header == files[receptor_fullpath].header
            dt1    == IF pc = "done" THEN gsh.dt1 ELSE rc.dt1
            dt2    == IF pc = "done" THEN gsh.dt2 ELSE rc.dt2
        IN  /\ header[5].key = "Data date"
            /\ header[5].str = "%Y%m%d" /\ header[5].nums = <<dt1 \div Day>>
            /\ header[6].key = "Datetime range"
            /\ header[6].str = "," /\ header[6].nums = <<dt1, dt2>>

---------------------------------------------------------------------------
---------------------------------------------------------------------------
\* C21: at a timestamp with the sun above the horizon, the slant row of
\* height 0 above the instrument is at the instrument's own latitude and
\* longitude, wherever the instrument is.
C21_ZeroHeightIsInstrument ==
    pc \in {"add_sh", "guard", "format", "header", "to_csv", "done"} =>
        \A k \in 1..Len(slant_df) :
            slant_df[k].z_ail = 0 /\ ~SunDown(slant_df[k].dt) =>
                /\ slant_df[k].receptor_lat = gsh.inst_lat
                /\ slant_df[k].receptor_lon = gsh.inst_lon

\* a table with a row of height 0 at the instrument and a row of the same
\* daylight time 1000 m up that is elsewhere
C21_Witness ==
    /\ pc = "add_sh" /\ gsh.z_ail_list = <<0, 100000, 1000000>>
    /\ ~SunDown(slant_df[1].dt)
    /\ slant_df[1].z_ail = 0 /\ slant_df[1].receptor_lat = gsh.inst_lat
    /\ slant_df[3].dt = slant_df[1].dt
    /\ <<slant_df[3].receptor_lat, slant_df[3].receptor_lon>> # <<gsh.inst_lat, gsh.inst_lon>>

---------------------------------------------------------------------------
\* C22: in the slant table of a ground or em27 run, consecutive timestamps
\* are one sampling interval of the configuration apart.
C22_StepIsConfigInterval ==
    pc \in {"add_sh", "guard", "format", "header", "to_csv", "done"} =>
        \A k \in 1..(Len(slant_df) - 1) :
            slant_df[k + 1].dt # slant_df[k].dt =>
                slant_df[k + 1].dt - slant_df[k].dt = configs.interval

---------------------------------------------------------------------------
\* C23: on a handler of a recognised DEM type the first lookup defines the
\* dataset handle and every later lookup leaves it as it is, so the dataset
\* is opened once; on a handler of another type every lookup raises and the
\* handle stays undefined.
C23_HandleDefinedOnce ==
    [][IF dem.dem_typeid = "aster"
       THEN /\ outcome' = "ok"
            /\ dem.dem_ds = 0 => dem'.dem_ds # 0 /\ dem'.opens = 1
            /\ dem.dem_ds # 0 => dem'.dem_ds = dem.dem_ds /\ dem'.opens = 1
       ELSE outcome' = "raised" /\ dem'.dem_ds = 0 /\ dem'.opens = 0]_vars

\* three lookups were made on an 'aster' handler, the last off the raster
C23_Witness ==
    /\ dem.dem_typeid = "aster" /\ runs = 3 /\ Len(slant_df) = 3
    /\ dem.dem_ds = 1 /\ dem.opens = 1
    /\ IsNa(slant_df[3].receptor_shasl) /\ ~IsNa(slant_df[1].receptor_shasl)

---------------------------------------------------------------------------
\* the start and the end the daily ranges of the constructed object split:
\* the local datetimes in run_config_obj, the UTC datetimes in StiltConfig
CfgStart ==
    IF configs.class = "run_config_obj" THEN dtstr_to_dttz(configs.start_dt_str, configs.timezone)
    ELSE astimezone_utc(dtstr_to_dttz(configs.start_dt_str, configs.timezone))

CfgEnd ==
    IF configs.class = "run_config_obj" THEN dtstr_to_dttz(configs.end_dt_str, configs.timezone)
    ELSE astimezone_utc(dtstr_to_dttz(configs.end_dt_str, configs.timezone))

\* C24: a configuration constructed with start <= end has a non-empty list
\* of daily ranges in chronological order: the first starts at the start,
\* the last ends at the end, each has dt1 <= dt2 on one calendar day, and
\* none reaches outside [start, end], also when both are on one date.
C24_DailyRanges ==
    pc = "cfg_done" /\ outcome = "ok" =>
        LET l == configs.split_dt_ranges
        IN  /\ Len(l) >= 1
            /\ l[1].dt1 = CfgStart
            /\ l[Len(l)].dt2 = CfgEnd
            /\ \A i \in 1..Len(l) :
                  /\ Instant(l[i].dt1) <= Instant(l[i].dt2)
                  /\ date(l[i].dt1) = date(l[i].dt2)
                  /\ Instant(CfgStart) <= Instant(l[i].dt1)
                  /\ Instant(l[i].dt2) <= Instant(CfgEnd)
            /\ \A i \in 1..(Len(l) - 1) : Instant(l[i].dt2) < Instant(l[i + 1].dt1)

---------------------------------------------------------------------------
\* the run_times of the table in the file the run has written
WrittenRunTimes ==
    LET t == files[receptor_fullpath].tables[1]
    IN  {t[i].run_times : i \in 1..Len(t)}

\* C25 as stated: every run_times value of a file written by a
\* receptor_creator for dt1, dt2 lies within [dt1, dt2], in both modes.
C25_RunTimesWithinRange ==
    pc = "done" /\ outcome = "ok" =>
        \A t \in WrittenRunTimes : rc.dt1 <= t /\ t <= rc.dt2

\* C25 amended: no run_times value is after dt2; in ground mode none is
\* before dt1; in em27 mode none is before the window start, the first
\* instrument time of the range snapped down to a step boundary, which is
\* less than one interval before dt1 at the earliest.
C25_RunTimesWithinWindow ==
    pc = "done" /\ outcome = "ok" =>
        /\ \A t \in WrittenRunTimes : t <= rc.dt2
        /\ configs.column_type = "ground" => \A t \in WrittenRunTimes : rc.dt1 <= t
        /\ configs.column_type = "em27" =>
              /\ \A t \in WrittenRunTimes : gsh.dt1 <= t
              /\ gsh.dt1 <= OofInRange[1].dt /\ rc.dt1 - configs.interval < gsh.dt1

\* an em27 run for 17:30-18:45 with instrument data from 17:40, hourly: the
\* file has rows at 17:00, before the range, and none after it
C25_Witness ==
    /\ pc = "done" /\ outcome = "ok" /\ configs.column_type = "em27"
    /\ rc.dt1 = T(17, 3600) /\ OofInRange[1].dt = T(17, 4800)
    /\ T(17, 0) \in WrittenRunTimes
    /\ \A t \in WrittenRunTimes : t <= T(18, 5400)

---------------------------------------------------------------------------
\* C26: whenever the slant builder has returned a table, the formatter
\* makes at least one receptor row of it, so the table of a written
\* receptor file is never empty.
C26_WrittenTableNotEmpty ==
    /\ pc \in {"header", "to_csv"} => Len(receptor_df) >= 1
    /\ pc = "done" /\ outcome = "ok" =>
          /\ Len(files[receptor_fullpath].tables) = 1
          /\ Len(files[receptor_fullpath].tables[1]) >= 1

\* a file written with two rows, from a slant table of three rows of
\* which the guard counted two, the third being a night row
C26_Witness ==
    /\ pc = "done" /\ outcome = "ok"
    /\ Len(slant_df) = 3 /\ SunDown(slant_df[1].dt)
    /\ Len(SelectSeq(slant_df, SlantRowDefined)) = 2
    /\ Len(files[receptor_fullpath].tables[1]) = 2

---------------------------------------------------------------------------
\* C27: an em27 run whose range holds no instrument data returns without
\* raising, leaves every receptor file as it was and leaves the instrument
\* location of the configuration as it was.
C27_NoDataReturns ==
    [][pc = "em27" /\ (\A i \in 1..Len(oof) : oof[i].dt < rc.dt1 \/ oof[i].dt > rc.dt2) =>
            /\ pc' = "done" /\ outcome' = "returned"
            /\ files' = files
            /\ configs' = configs]_vars

\* the run for 06:00-07:00 has returned: the instrument data on disk, at
\* another place than the configuration's, are all of the afternoon
C27_Witness ==
    /\ pc = "done" /\ outcome = "returned" /\ configs.column_type = "em27"
    /\ rc.dt1 = T(6, 0) /\ Len(oof) = 2
    /\ configs.inst_lat # oof[1].inst_lat
    /\ files = [p \in Paths |-> OldFile]

---------------------------------------------------------------------------
\* C28: when stilt_init finds the project directory already there,
\* full_setup leaves its loop at once and goes on to the receptor-folder
\* step, without a prompt, a deletion or an exception; and the loop is left
\* in no other way than a zero response or the user declining the retry.
C28_ExistingProjectContinues ==
    [][pc = "ss_response" =>
          /\ gsh.response = NoneResponse =>
                /\ pc' = "ss_rec_folder"
                /\ outcome' # "raised"
                /\ gsh'.prompts = gsh.prompts /\ gsh'.deletes = gsh.deletes
                /\ files' = files
          /\ pc' # "ss_loop" =>
                \/ gsh.response \in {NoneResponse, 0}
                \/ outcome' = "exit"]_vars

---------------------------------------------------------------------------
\* C29: a constructed stilt_setup has a project name, the stilt_name the
\* caller gave or else dt1 printed as YYYYMMDD, and no step of full_setup
\* fails for the lack of it.
C29_ProjectNameDefined ==
    pc # "ss_new" =>
        /\ rc.stilt_name = IF gsh.stilt_name = None THEN strftime(rc.dt1, "%Y%m%d")
                           ELSE gsh.stilt_name
        /\ gsh.error # "AttributeError"

---------------------------------------------------------------------------
\* C30: after parse_rec_header has read a file made by create_for_stilt,
\* the reader holds the instrument latitude, longitude and elevation, the
\* start and end datetimes and the data-date string that were written.
C30_HeaderRoundTrip ==
    pc = "stilt_loaded" =>
        /\ gsh.error = ""
        /\ gsh.inst_lat = configs.inst_lat /\ gsh.inst_lon = configs.inst_lon
        /\ gsh.inst_zasl = configs.inst_zasl
        /\ gsh.dt1 = rc.dt1 /\ gsh.dt2 = rc.dt2
        /\ gsh.data_datestr = [str |-> "%Y%m%d", nums |-> <<rc.dt1 \div Day>>]

====
